---------------------------- MODULE Spec2Model ----------------------------
(***************************************************************************)
(* Model of the memory watcher (src/src/main.rs, src/src/process_utils.rs) *)
(* running against a live OS process table.                                *)
(*                                                                         *)
(* The watcher is one sequential thread; every action below is one of its  *)
(* system interactions (a /proc read, a kill(2), a spawn, a sleep) together*)
(* with the pure code that follows it up to the next interaction.  The     *)
(* process table changes underneath it: OsExit and OsSpawn interleave with *)
(* the watcher's steps, so a PID may vanish or be recycled between any two *)
(* of them.  Children are modelled as leaving the table when they exit.    *)
(***************************************************************************)
EXTENDS Integers, Sequences, FiniteSets, TLC

\* ------------------------------------------------------------------ bounds
NumPids == 2
MaxSpawns == 1
MaxTimeout == 1

\* ------------------------------------------------------- program constants
SIGTERM == 15
INTERVAL == 1
Threshold == 2

Pids == 1..NumPids
Name == "target"
Comms == {Name, "other"}
RssValues == {Threshold - 1, Threshold, Threshold + 1}
NoProc == [comm |-> "none"]

VARIABLES
    table,      \* OS process table: pid -> process record or NoProc
    nextStart,  \* boot-relative clock value given to the next started process
    pc,         \* position of the watcher in run()
    timeout,    \* --timeout, whole seconds
    check,      \* --check (should_check_process)
    todo,       \* find_processes: enumerated PIDs whose details are unread
    found,      \* find_processes: the Vec<ProcessInfo> collected so far
    process,    \* run(): the single ProcessInfo snapshot
    envCopy,    \* run(): env, the clone of process.env() taken at main.rs:109
    elapsed,    \* wait_stop: the last reading of started.elapsed(), whole
                \* seconds (a local of wait_stop: 0 once it is left behind)
    newPid,     \* run(): pid returned by restart_process
    result,     \* outcome of run(): "running", "Ok" or the RunError variant
    cause,      \* innermost error of the chain
    sigLog,     \* history: every kill(2) made, with the instance it reached
    launches,   \* history: every launch_process call, in order
    discoveries,\* history: number of find_processes calls
    waitResult, \* history: how wait_stop returned
    polls,      \* history: number of has_stopped calls
    vanished    \* history: a detail read hit a PID that had exited

vars == <<table, nextStart, pc, timeout, check, todo, found, process, envCopy, envCopy,
          elapsed, newPid, result, cause, sigLog, launches, discoveries,
          waitResult, polls, vanished>>

osVars == <<table, nextStart>>
inputVars == <<timeout, check>>
histVars == <<sigLog, launches, discoveries, waitResult, polls, vanished>>

\* ----------------------------------------------------------------- helpers
Min(S) == CHOOSE x \in S : \A y \in S : x <= y

Live(tbl) == {p \in Pids : tbl[p] # NoProc}

\* libc::kill as seen through send_signal: Ok, or one of the KillError kinds.
ValidSignals == {0, SIGTERM}

send_signal(tbl, pid, signal) ==
    IF signal \notin ValidSignals THEN "InvalidSignal"
    ELSE IF tbl[pid] = NoProc THEN "NotFound"
    ELSE IF ~tbl[pid].own THEN "PermissionDenied"
    ELSE "Ok"

\* The instance a signal addressed to pid reaches (0: none).
Instance(tbl, pid) == IF tbl[pid] = NoProc THEN 0 ELSE tbl[pid].start

\* One element of the closure of find_processes (lines 82-103): the detail
\* read of one enumerated pid.  A pid that has exited by the time stat() or
\* environ() reads it makes that read fail.
ReadDetails(tbl, pid, cmd_name) ==
    IF tbl[pid] = NoProc THEN [kind |-> "Err", err |-> "GetStat"]
    ELSE IF tbl[pid].comm = cmd_name
         THEN IF ~tbl[pid].own
              THEN [kind |-> "Err", err |-> "GetEnv"]
              ELSE [kind |-> "Some",
                    info |-> [pid |-> pid, rss |-> tbl[pid].rss,
                              env |-> tbl[pid].env,
                              start_time |-> tbl[pid].start,
                              command |-> tbl[pid].comm]]
         ELSE [kind |-> "None"]

NoInfo == [pid |-> 0]

\* ------------------------------------------------------------------- Init
InitProcs ==
    {NoProc}
    \cup {[comm |-> "other", rss |-> Threshold, own |-> TRUE, env |-> "envA"]}
    \cup {[comm |-> Name, rss |-> r, own |-> TRUE, env |-> "envA"] :
              r \in RssValues}

Init ==
    /\ \E t \in [Pids -> InitProcs] :
          table = [p \in Pids |->
                     IF t[p] = NoProc THEN NoProc
                     ELSE [comm |-> t[p].comm, rss |-> t[p].rss,
                           own |-> t[p].own, env |-> t[p].env, start |-> p]]
    /\ nextStart = NumPids + 1
    /\ pc = "find"
    /\ timeout \in 0..MaxTimeout
    /\ check \in BOOLEAN
    /\ todo = {}
    /\ found = <<>>
    /\ process = NoInfo
    /\ envCopy = "none"
    /\ elapsed = 0
    /\ newPid = 0
    /\ result = "running"
    /\ cause = "none"
    /\ sigLog = {}
    /\ launches = <<>>
    /\ discoveries = 0
    /\ waitResult = "none"
    /\ polls = 0
    /\ vanished = FALSE

\* ------------------------------------------------- pure decisions of the code
OverThreshold_Ge(memory, threshold) == memory >= threshold

\* main.rs:107
OverThreshold(memory, threshold) == memory > threshold

Ambiguity_TakeFirst(processes) ==
    IF Len(processes) = 0 THEN "ProcessNotFound" ELSE "one"

\* main.rs:99-103: the ambiguity check on the discovered Vec.
Ambiguity(processes) ==
    IF Len(processes) > 1 THEN "MultipleFound"
    ELSE IF Len(processes) = 0 THEN "ProcessNotFound"
    ELSE "one"

AfterTerminate_SkipWait(res) == IF res = "Ok" THEN "launch" ELSE "done"

AfterTerminate_IgnoreError(res) == "probe"

\* process_utils.rs:231: the `?` after send_signal(self.pid, SIGTERM).
AfterTerminate(res) == IF res = "Ok" THEN "probe" ELSE "done"

AfterProbe_SwallowAll(res) == IF res = "Ok" THEN "read" ELSE "launch"

\* process_utils.rs:180-187: the match on the liveness probe.
AfterProbe(res) ==
    IF res = "NotFound" THEN "launch"
    ELSE IF res = "Ok" THEN "read"
    ELSE "done"

StartTimeDiffers_PidOnly(starttime, start_time) == FALSE

StartTimeDiffers_Always(starttime, start_time) == TRUE

\* process_utils.rs:190-195: starttime != self.start_time
StartTimeDiffers(starttime, start_time) == starttime # start_time

HasStoppedRead_Swallow(tbl, pid, start_time) ==
    IF tbl[pid] = NoProc THEN "stopped"
    ELSE IF StartTimeDiffers(tbl[pid].start, start_time) THEN "stopped"
    ELSE "running"

\* process_utils.rs:190-195: Process::new(pid)?.stat()?.starttime compared
\* with the snapshot; either `?` returns the read error.
HasStoppedRead(tbl, pid, start_time) ==
    IF tbl[pid] = NoProc THEN "Err"
    ELSE IF StartTimeDiffers(tbl[pid].start, start_time) THEN "stopped"
    ELSE "running"

\* The two reads that fail on a pid that has gone since the probe: it went
\* before Process::new (GetProcessInfo) or before stat() (GetProcessStats).
ReadErrors == {"WaitStop.GetProcessInfo", "WaitStop.GetProcessStats"}

TimedOut_Late(el, to) == el > to + 1

\* process_utils.rs:209
TimedOut(el, to) == el > to

AfterWait_FailOnTimeout(how) == IF how = "timeout" THEN "done" ELSE "launch"

AfterWait_TermAgain(how) == IF how = "timeout" THEN "term" ELSE "launch"

\* process_utils.rs:232-233: wait_stop returns Ok(()) however it ended
\* ("stopped" or "timeout"), and `?` passes on to launch_process.
AfterWait(how) == "launch"

AfterRestart_Tolerant(pid, should_check_process) ==
    IF should_check_process
    THEN (IF pid = 0 THEN "relaunch" ELSE "grace")
    ELSE "done"

\* main.rs:110-116: what run() does with the result of restart_process
\* (pid 0 stands for Err(LaunchProcess)).
AfterRestart(pid, should_check_process) ==
    IF pid = 0 THEN "done"
    ELSE IF should_check_process THEN "grace" ELSE "done"

AnyPid_Always(processes, pid) == TRUE

\* main.rs:46-48: processes.into_iter().any(|p| p.pid() == pid)
AnyPid(processes, pid) ==
    \E i \in 1..Len(processes) : processes[i].pid = pid

LaunchEnv_Inherit(info) == "envW"

\* The environment restart_process hands to launch_process: self.env
\* (process_utils.rs:233), passed through env_clear().envs(environment).
LaunchEnv(info) == info.env

\* One kill(2) as recorded in sigLog: n numbers the calls of the run, after
\* is the number of launch_process calls made before it.
Signal(pid, signal, res) ==
    [pid |-> pid, sig |-> signal, res |-> res, inst |-> Instance(table, pid),
     n |-> Cardinality(sigLog) + 1, after |-> Len(launches)]

Finish(r, c) ==
    /\ pc' = "done"
    /\ result' = r
    /\ cause' = c

\* ------------------------------------------------------ process table (OS)
OsSpawned == nextStart - (NumPids + 1)
                - Cardinality({i \in 1..Len(launches) : launches[i].pid # 0})

\* The table is observed only by the watcher's system calls, so its changes
\* are interleaved in front of those (not in front of a sleep or of the pure
\* code that follows a finished discovery).
AtSyscall ==
    \/ pc \in {"find", "cfind", "term", "probe", "read", "launch", "relaunch"}
    \/ pc \in {"scan", "cscan"} /\ todo # {}

OsExit(p) ==
    /\ AtSyscall
    /\ table[p] # NoProc
    /\ table' = [table EXCEPT ![p] = NoProc]
    /\ UNCHANGED <<nextStart, pc, inputVars, todo, found, process, envCopy, elapsed,
                   newPid, result, cause, histVars>>

OsSpawn(p) ==
    /\ AtSyscall
    /\ table[p] = NoProc
    /\ OsSpawned < MaxSpawns
    /\ \E c \in Comms, o \in BOOLEAN :
          /\ (~o => c = Name)
          /\ table' = [table EXCEPT ![p] =
                         [comm |-> c, rss |-> Threshold, own |-> o,
                          env |-> "envB", start |-> nextStart]]
    /\ nextStart' = nextStart + 1
    /\ UNCHANGED <<pc, inputVars, todo, found, process, envCopy, elapsed,
                   newPid, result, cause, histVars>>

\* ------------------------------------------------------------ find_processes
\* procfs::process::all_processes(): the enumeration.
Enumerate ==
    /\ pc \in {"find", "cfind"}
    /\ todo' = Live(table)
    /\ found' = <<>>
    /\ discoveries' = discoveries + 1
    /\ pc' = IF pc = "find" THEN "scan" ELSE "cscan"
    /\ UNCHANGED <<osVars, inputVars, process, envCopy, elapsed, newPid, result, cause,
                   sigLog, launches, waitResult, polls, vanished>>

\* One turn of the iterator and of the map closure; collect() stops at the
\* first Err.  A pid that exited after the enumeration is either not yielded
\* by the iterator at all (it was gone before its /proc entry was opened:
\* skip) or yielded and then fails its detail read (it went between the two).
ScanStep(skip) ==
    /\ pc \in {"scan", "cscan"}
    /\ todo # {}
    /\ LET p == Min(todo)
           r == ReadDetails(table, p, Name)
       IN  CASE table[p] = NoProc /\ skip ->
                  /\ todo' = todo \ {p}
                  /\ UNCHANGED <<found, pc, result, cause, vanished>>
             [] r.kind = "Err" ->
                  /\ Finish(IF pc = "scan" THEN "FindProcess" ELSE "Check", r.err)
                  /\ vanished' = (vanished \/ table[p] = NoProc)
                  /\ UNCHANGED <<todo, found>>
             [] r.kind = "Some" ->
                  /\ found' = Append(found, r.info)
                  /\ todo' = todo \ {p}
                  /\ UNCHANGED <<pc, result, cause, vanished>>
             [] OTHER ->
                  /\ todo' = todo \ {p}
                  /\ UNCHANGED <<found, pc, result, cause, vanished>>
    /\ UNCHANGED <<osVars, inputVars, process, envCopy, elapsed, newPid,
                   sigLog, launches, discoveries, waitResult, polls>>

Scan ==
    /\ todo # {}
    /\ \E skip \in BOOLEAN :
          /\ skip => table[Min(todo)] = NoProc
          /\ ScanStep(skip)

\* ----------------------------------------------------------------- run()
\* main.rs:99-108, after the first discovery returned Ok.
RunDecide ==
    /\ pc = "scan"
    /\ todo = {}
    /\ IF Ambiguity(found) # "one"
       THEN /\ Finish(Ambiguity(found), "none")
            /\ UNCHANGED <<process, envCopy>>
       ELSE /\ process' = found[1]
            /\ IF OverThreshold(found[1].rss, Threshold)
               THEN /\ pc' = "term"
                    /\ envCopy' = found[1].env
                    /\ UNCHANGED <<result, cause>>
               ELSE /\ Finish("Ok", "none")
                    /\ UNCHANGED envCopy
    /\ UNCHANGED <<osVars, inputVars, todo, found, elapsed, newPid, histVars>>

\* process_utils.rs:231 and the first lines of wait_stop (started = now).
Terminate ==
    /\ pc = "term"
    /\ LET res == send_signal(table, process.pid, SIGTERM)
       IN  /\ sigLog' = sigLog \cup {Signal(process.pid, SIGTERM, res)}
           /\ IF AfterTerminate(res) = "done"
              THEN Finish("Restart", "Terminate")
              ELSE /\ pc' = AfterTerminate(res)
                   /\ UNCHANGED <<result, cause>>
    /\ elapsed' = 0
    /\ UNCHANGED <<osVars, inputVars, todo, found, process, envCopy, newPid,
                   launches, discoveries, waitResult, polls, vanished>>

\* wait_stop returns Ok(()) to restart_process (process_utils.rs:215, 232).
WaitReturns(how) ==
    /\ waitResult' = how
    /\ IF AfterWait(how) = "done"
       THEN Finish("Restart", "WaitStop")
       ELSE /\ pc' = AfterWait(how)
            /\ UNCHANGED <<result, cause>>

\* has_stopped, first half: send_signal(pid, 0).
Probe ==
    /\ pc = "probe"
    /\ polls' = polls + 1
    /\ LET res == send_signal(table, process.pid, 0)
           to == AfterProbe(res)
       IN  /\ sigLog' = sigLog \cup {Signal(process.pid, 0, res)}
           /\ CASE to = "launch" ->
                     /\ WaitReturns("stopped")
                     /\ elapsed' = 0
                [] to = "read" ->
                     /\ pc' = "read"
                     /\ UNCHANGED <<waitResult, result, cause, elapsed>>
                [] OTHER ->
                     /\ Finish("Restart", "WaitStop.SendSignal0")
                     /\ waitResult' = "error"
                     /\ elapsed' = 0
    /\ UNCHANGED <<osVars, inputVars, todo, found, process, envCopy, newPid,
                   launches, discoveries, vanished>>

\* has_stopped, second half (Process::new(pid)?.stat()?.starttime), and the
\* rest of the loop body of wait_stop up to the sleep.
ReadStart ==
    /\ pc = "read"
    /\ LET r == HasStoppedRead(table, process.pid, process.start_time)
       IN
       IF r = "Err"
       THEN /\ \E e \in ReadErrors : Finish("Restart", e)
            /\ waitResult' = "error"
            /\ elapsed' = 0
       ELSE IF r = "stopped"
       THEN /\ WaitReturns("stopped")
            /\ elapsed' = 0
       ELSE \E d \in {0, 1} :
            /\ elapsed' = elapsed + d
            /\ IF TimedOut(elapsed', timeout)
               THEN WaitReturns("timeout")
               ELSE /\ pc' = "sleep"
                    /\ UNCHANGED <<waitResult, result, cause>>
    /\ UNCHANGED <<osVars, inputVars, todo, found, process, envCopy, newPid,
                   sigLog, launches, discoveries, polls, vanished>>

\* process_utils.rs:213
Sleep ==
    /\ pc = "sleep"
    /\ elapsed' = elapsed + INTERVAL
    /\ pc' = "probe"
    /\ UNCHANGED <<osVars, inputVars, todo, found, process, envCopy, newPid, result,
                   cause, histVars>>

\* launch_process: Command::spawn either fails or starts a child on a free
\* pid with exactly the environment passed.  The comm of the child is that
\* of whatever --command execs, which need not be the watched name.
SpawnOk(p, env) ==
    /\ table[p] = NoProc
    /\ \E c \in Comms :
          table' = [table EXCEPT ![p] =
                       [comm |-> c, rss |-> Threshold, own |-> TRUE,
                        env |-> env, start |-> nextStart]]
    /\ nextStart' = nextStart + 1
    /\ launches' = Append(launches, [env |-> env, pid |-> p,
                                     start |-> nextStart, at |-> pc])

SpawnFail(env) ==
    /\ launches' = Append(launches, [env |-> env, pid |-> 0,
                                     start |-> 0, at |-> pc])
    /\ UNCHANGED osVars

\* process_utils.rs:233 and main.rs:110-116.
Launch ==
    /\ pc = "launch"
    /\ \/ /\ SpawnFail(LaunchEnv(process))
          /\ IF AfterRestart(0, check) = "done"
             THEN Finish("Restart", "LaunchProcess")
             ELSE /\ pc' = AfterRestart(0, check)
                  /\ UNCHANGED <<result, cause>>
          /\ UNCHANGED newPid
       \/ \E p \in Pids :
          /\ SpawnOk(p, LaunchEnv(process))
          /\ newPid' = p
          /\ IF AfterRestart(p, check) = "done"
             THEN Finish("Ok", "none")
             ELSE /\ pc' = AfterRestart(p, check)
                  /\ UNCHANGED <<result, cause>>
    /\ elapsed' = 0
    /\ UNCHANGED <<inputVars, todo, found, process, envCopy,
                   sigLog, discoveries, waitResult, polls, vanished>>

\* ---------------------------------------------------------- check_process
\* main.rs:43
CheckSleep ==
    /\ pc = "grace"
    /\ pc' = "cfind"
    /\ UNCHANGED <<osVars, inputVars, todo, found, process, envCopy, elapsed, newPid,
                   result, cause, histVars>>

\* main.rs:46-52, after the second discovery returned Ok.
CheckDecide ==
    /\ pc = "cscan"
    /\ todo = {}
    /\ IF AnyPid(found, newPid)
       THEN Finish("Ok", "none")
       ELSE /\ pc' = "relaunch"
            /\ UNCHANGED <<result, cause>>
    /\ UNCHANGED <<osVars, inputVars, todo, found, process, envCopy, elapsed, newPid,
                   histVars>>

\* main.rs:53-55
Relaunch ==
    /\ pc = "relaunch"
    /\ \/ /\ SpawnFail(envCopy)
          /\ Finish("Check", "CheckLaunchProcess")
       \/ \E p \in Pids :
          /\ SpawnOk(p, envCopy)
          /\ Finish("Ok", "none")
    /\ UNCHANGED <<inputVars, todo, found, process, envCopy, elapsed, newPid,
                   sigLog, discoveries, waitResult, polls, vanished>>

\* ------------------------------------------------------------------- Next
Next ==
    \/ \E p \in Pids : OsExit(p)
    \/ \E p \in Pids : OsSpawn(p)
    \/ Enumerate
    \/ Scan
    \/ RunDecide
    \/ Terminate
    \/ Probe
    \/ ReadStart
    \/ Sleep
    \/ Launch
    \/ CheckSleep
    \/ CheckDecide
    \/ Relaunch

Spec == Init /\ [][Next]_vars

TypeOK ==
    /\ pc \in {"find", "scan", "term", "probe", "read", "sleep", "launch",
               "grace", "cfind", "cscan", "relaunch", "done"}
    /\ result \in {"running", "Ok", "FindProcess", "MultipleFound",
                   "ProcessNotFound", "Restart", "Check"}
    /\ (pc = "done") <=> (result # "running")
    /\ Len(launches) <= 2
    /\ discoveries <= 2

\* ===================================================================== claims
\* Vocabulary of the properties below.
TermOk ==
    \E s \in sigLog : s.sig = SIGTERM /\ s.res = "Ok" /\ s.pid = process.pid

TermFailed == \E s \in sigLog : s.sig = SIGTERM /\ s.res # "Ok"

WaitReturned == waitResult \in {"stopped", "timeout"}

\* The first discovery has returned Ok to run().
Discovered ==
    /\ discoveries >= 1
    /\ pc \notin {"find", "scan"}
    /\ result # "FindProcess"

\* The verification discovery has returned Ok to check_process.
Verified ==
    /\ discoveries = 2
    /\ pc \notin {"cfind", "cscan"}
    /\ ~(result = "Check" /\ cause \in {"GetStat", "GetEnv"})

\* The watcher (not the process table) takes a step.
WatcherStep == pc' # pc \/ todo' # todo \/ elapsed' # elapsed

\* C1: a launch is made only after SIGTERM was sent successfully to the
\* discovered pid and wait_stop has returned (stopped or timed out).
C1_LaunchAfterTermAndWait ==
    [][launches' # launches => (TermOk /\ WaitReturned)]_vars

C1_Witness ==
    /\ Len(launches) >= 1
    /\ launches[1].pid # 0
    /\ TermOk
    /\ WaitReturned

\* C2: a poll whose probe succeeded and whose start-time read differs from
\* the snapshot reports "stopped": wait_stop returns on that very poll and
\* never goes on polling.
C2_RecycledPidIsStopped ==
    [][(/\ pc = "read"
        /\ pc' # "read"
        /\ table[process.pid] # NoProc
        /\ table[process.pid].start # process.start_time)
       => (pc' = "launch" /\ waitResult' = "stopped" /\ result' = "running")]_vars

C2_Witness ==
    /\ pc = "launch"
    /\ waitResult = "stopped"
    /\ table[process.pid] # NoProc
    /\ table[process.pid].start # process.start_time
    /\ \E s \in sigLog : s.sig = 0 /\ s.res = "Ok" /\ s.inst # process.start_time

\* C3: the wait goes on only while the timeout has not elapsed; when the
\* target is still the same live process and the elapsed time exceeds the
\* timeout, wait_stop returns Ok, the restart does not fail for it, and the
\* launch is the next thing attempted.
C3_TimeoutProceedsToLaunch ==
    /\ pc = "sleep" => elapsed <= timeout
    /\ waitResult = "timeout" =>
          /\ \/ pc = "launch" /\ result = "running" /\ elapsed > timeout
             \/ Len(launches) >= 1
          /\ cause \notin {"Terminate", "WaitStop", "WaitStop.SendSignal0",
                           "WaitStop.GetProcessInfo", "WaitStop.GetProcessStats"}

C3_Witness ==
    /\ waitResult = "timeout"
    /\ Len(launches) >= 1
    /\ polls >= 2

\* C4 (as claimed): a process that exits between its enumeration and its
\* detail read never makes discovery return an error.
C4_VanishedIsSkipped ==
    ~(pc = "done" /\ vanished /\ result \in {"FindProcess", "Check"})

\* C5: zero or several matches end the run with ProcessNotFound or
\* MultipleFound, and no signal is sent and nothing is launched.
C5_AmbiguityTakesNoAction ==
    (Discovered /\ discoveries = 1 /\ Len(found) # 1) =>
        /\ pc = "done"
        /\ result = (IF Len(found) = 0 THEN "ProcessNotFound" ELSE "MultipleFound")
        /\ sigLog = {}
        /\ launches = <<>>

C5_Witness ==
    /\ result = "MultipleFound"
    /\ Len(found) = 2

\* C6: with a single match the restart is entered iff rss > threshold; at or
\* below the threshold the run ends Ok having sent no signal, launched
\* nothing and verified nothing.
C6_RestartIffOverThreshold ==
    (Discovered /\ Len(found) = 1 /\ discoveries = 1) =>
        /\ process = found[1]
        /\ IF process.rss > Threshold
           THEN pc = "term" \/ sigLog # {}
           ELSE /\ pc = "done"
                /\ result = "Ok"
                /\ sigLog = {}
                /\ launches = <<>>

C6_Witness ==
    /\ pc = "done"
    /\ result = "Ok"
    /\ process # NoInfo
    /\ process.rss = Threshold

\* C7: at most two launches and one verification discovery per run; without
\* --check one launch at most and no second discovery; with --check, after
\* a successful relaunch to pid p, the re-run discovery decides: p found, no
\* further launch; p not found, exactly one corrective launch and nothing
\* after it.
C7_OneCorrectiveLaunch ==
    /\ Len(launches) <= 2
    /\ discoveries <= 2
    /\ ~check => (Len(launches) <= 1 /\ discoveries <= 1)
    /\ (~check /\ newPid # 0) => (pc = "done" /\ result = "Ok")
    /\ discoveries = 2 => (check /\ newPid # 0 /\ launches[1].pid = newPid)
    /\ (Verified /\ pc = "done") =>
          IF \E i \in 1..Len(found) : found[i].pid = newPid
          THEN Len(launches) = 1 /\ result = "Ok"
          ELSE Len(launches) = 2
    /\ Len(launches) = 2 => (Verified /\ pc = "done")

C7_Witness ==
    /\ Verified
    /\ pc = "done"
    /\ Len(launches) = 2
    /\ launches[2].pid # 0

\* C8 (as claimed): verification succeeds only if the very instance the
\* relaunch created (pid and start time) is among the discovered processes.
C8_VerifiedMeansSameInstance ==
    (Verified /\ pc = "done" /\ result = "Ok" /\ Len(launches) = 1) =>
        \E i \in 1..Len(found) :
            /\ found[i].pid = newPid
            /\ found[i].start_time = launches[1].start

\* C9: a failed SIGTERM ends the run at once with the Terminate error: one
\* signal in all, no wait, no launch, no verification.
C9_TerminateFailureIsFatal ==
    TermFailed =>
        /\ pc = "done"
        /\ result = "Restart"
        /\ cause = "Terminate"
        /\ Cardinality(sigLog) = 1
        /\ polls = 0
        /\ waitResult = "none"
        /\ launches = <<>>
        /\ discoveries = 1

C9_Witness ==
    /\ \E s \in sigLog : s.sig = SIGTERM /\ s.res = "PermissionDenied"
    /\ pc = "done"

\* C10 (as claimed): with --check, a failed relaunch is followed by one
\* corrective launch.
C10_LaunchFailureTolerated ==
    (check /\ pc = "done" /\ Len(launches) >= 1 /\ launches[1].pid = 0) =>
        Len(launches) = 2

\* C10 (amended): a failed relaunch ends the run with the LaunchProcess
\* error, --check or not: no verification, no corrective launch.  The
\* corrective launch follows only a relaunch that succeeded, and no launch
\* follows it.
C10_LaunchFailureIsFatal ==
    /\ (Len(launches) >= 1 /\ launches[1].pid = 0) =>
          /\ pc = "done"
          /\ result = "Restart"
          /\ cause = "LaunchProcess"
          /\ Len(launches) = 1
          /\ discoveries = 1
    /\ Len(launches) >= 2 =>
          /\ Len(launches) = 2
          /\ launches[1].pid # 0
          /\ launches[2].at = "relaunch"
          /\ pc = "done"

C10_Witness ==
    /\ check
    /\ Len(launches) = 1
    /\ launches[1].pid = 0
    /\ pc = "done"

\* C11: every launch of a run, corrective one included, is given the
\* environment captured in the discovery snapshot of the original process,
\* and the started child carries exactly that environment.
C11_LaunchesUseSnapshotEnv ==
    \A i \in 1..Len(launches) :
        /\ launches[i].env = process.env
        /\ launches[i].env \in {"envA", "envB"}
        /\ \A p \in Pids :
              (table[p] # NoProc /\ table[p].start = launches[i].start)
                  => table[p].env = process.env

C11_Witness ==
    /\ Len(launches) = 2
    /\ launches[2].pid # 0
    /\ launches[2].env = process.env
    /\ \E p \in Pids :
          /\ table[p] # NoProc
          /\ table[p].start = launches[2].start
          /\ table[p].env = process.env
    /\ \E p \in Pids : table[p] # NoProc /\ table[p].env # process.env

\* C12: a poll whose probe succeeded and whose read of the pid's entry or
\* stats then fails ends wait_stop with that error at once: the run fails
\* with the WaitStop error, the poll counts neither as "stopped" nor as
\* "still running", and nothing is launched.
C12_ReadErrorIsFatal ==
    [][(pc = "read" /\ pc' # "read" /\ table[process.pid] = NoProc)
       => (/\ pc' = "done"
           /\ result' = "Restart"
           /\ cause' \in ReadErrors
           /\ waitResult' = "error"
           /\ launches' = <<>>
           /\ discoveries' = 1)]_vars

C12_Witness ==
    /\ pc = "done"
    /\ cause = "WaitStop.GetProcessStats"
    /\ table[process.pid] = NoProc
    /\ polls >= 2

\* C13 (as claimed): when the over-threshold target took the SIGTERM and
\* has exited before the timeout, at whatever moment of a poll, with no
\* other process started meanwhile and no launch failing, the run has
\* observed it as stopped, launched the replacement with the snapshot
\* environment and ended with success.
C13_ExitIsObservedAndRelaunched ==
    (/\ pc = "done"
     /\ \E s \in sigLog :
           s.sig = SIGTERM /\ s.res = "Ok" /\ s.inst = process.start_time
     /\ \A p \in Pids :
           table[p] = NoProc \/ table[p].start # process.start_time
     /\ waitResult # "timeout"
     /\ OsSpawned = 0
     /\ \A i \in 1..Len(launches) : launches[i].pid # 0
     /\ result # "Check")
    => (/\ result = "Ok"
        /\ waitResult = "stopped"
        /\ Len(launches) >= 1
        /\ launches[1].env = process.env)

\* C14: wait_stop is over after a bounded number of polls: it polls at
\* least once whatever the timeout, an INTERVAL of sleep separates
\* consecutive polls, and for a timeout of T seconds it never makes more
\* than T + 2 polls, leaving at the first poll that reads elapsed > T.
C14_WaitStopIsBounded ==
    /\ polls <= timeout + 2
    /\ waitResult # "none" => polls >= 1
    /\ pc = "read" => (polls >= 1 /\ elapsed >= (polls - 1) * INTERVAL)
    /\ pc = "sleep" => (elapsed >= (polls - 1) * INTERVAL /\ elapsed <= timeout)
    /\ (pc = "probe" /\ polls >= 1) => elapsed >= polls * INTERVAL
    /\ pc = "probe" => polls <= timeout + 1
    /\ (waitResult = "timeout" /\ pc = "launch") => elapsed > timeout

C14_Witness ==
    /\ waitResult = "timeout"
    /\ pc = "launch"
    /\ polls = timeout + 2
    /\ timeout = MaxTimeout

\* The instance now at the watched pid is the one of the snapshot.
SameInstance ==
    /\ table[process.pid] # NoProc
    /\ table[process.pid].start = process.start_time

\* C15: a poll that finds the target alive with the snapshot's start time
\* reports "not stopped", however often it is repeated: wait_stop then
\* either sleeps on or leaves on the timeout, and it returns as "stopped"
\* only from a poll that saw not-found or another start time.
C15_UnchangedProcessNeverStopped ==
    [][/\ (pc = "read" /\ pc' # "read" /\ SameInstance)
          => \/ pc' = "sleep" /\ waitResult' = "none" /\ elapsed' <= timeout
             \/ pc' = "launch" /\ waitResult' = "timeout" /\ elapsed' > timeout
       /\ (waitResult = "none" /\ waitResult' = "stopped")
          => ~SameInstance
       /\ (waitResult = "none" /\ pc' = "launch")
          => waitResult' \in {"stopped", "timeout"}]_vars

C15_Witness ==
    /\ pc = "sleep"
    /\ polls >= 2
    /\ SameInstance

\* C16: in the liveness probe NotFound is consumed as "stopped" and no
\* error reaches the caller; PermissionDenied and InvalidSignal come back as
\* the SendSignal0 error, which ends the run with nothing launched.  No
\* other signal error is turned into a success: a NotFound of SIGTERM is
\* the fatal Terminate error.
C16_OnlyProbeNotFoundIsSuccess ==
    \A s \in sigLog :
        /\ (s.sig = 0 /\ s.res = "NotFound") =>
              /\ waitResult = "stopped"
              /\ cause \notin {"Terminate", "WaitStop.SendSignal0"} \cup ReadErrors
              /\ pc = "launch" \/ Len(launches) >= 1
        /\ (s.sig = 0 /\ s.res \in {"PermissionDenied", "InvalidSignal"}) =>
              /\ pc = "done"
              /\ result = "Restart"
              /\ cause = "WaitStop.SendSignal0"
              /\ waitResult = "error"
              /\ launches = <<>>
        /\ (s.sig # 0 /\ s.res # "Ok") =>
              /\ pc = "done"
              /\ result = "Restart"
              /\ cause = "Terminate"
              /\ launches = <<>>

C16_Witness ==
    /\ pc = "done"
    /\ cause = "WaitStop.SendSignal0"
    /\ \E s \in sigLog : s.sig = 0 /\ s.res = "PermissionDenied"
    /\ \E s \in sigLog : s.sig = SIGTERM /\ s.res = "Ok"

\* C17 (as claimed): SIGTERM only ever reaches the process instance of the
\* snapshot, never a process that took over its pid after the discovery.
C17_SigtermReachesSnapshotInstance ==
    \A s \in sigLog :
        (s.sig = SIGTERM /\ s.res = "Ok") => s.inst = process.start_time

\* C18: a run sends SIGTERM at most once, addresses every signal (SIGTERM
\* and probes) to the pid found by the first discovery, sends none once a
\* launch has been attempted, and so never signals a process it launched.
C18_SignalsOnlyTheDiscoveredPid ==
    /\ Cardinality({s \in sigLog : s.sig = SIGTERM}) <= 1
    /\ \A s \in sigLog :
          /\ s.pid = process.pid
          /\ s.sig \in {0, SIGTERM}
          /\ s.after = 0
          /\ s.sig = SIGTERM => s.n = 1
          /\ \A i \in 1..Len(launches) :
                launches[i].pid # 0 => launches[i].start # s.inst
    /\ sigLog # {} => (discoveries >= 1 /\ process # NoInfo)
    /\ sigLog # {} => Cardinality(sigLog) = polls + 1

C18_Witness ==
    /\ pc = "done"
    /\ Len(launches) = 2
    /\ Cardinality(sigLog) >= 3
    /\ \E i \in 1..2 : launches[i].pid = process.pid
====
